---- MODULE Spec2Model ----
(***************************************************************************)
(* Model of streamstofiles' AudioConcatenator (concatenator.py) and of the *)
(* way cli.py drives it: timestamp calculation, the ffmpeg concat          *)
(* manifest, sequential and randomized concatenation, and the track        *)
(* listing.  Text (timestamps, paths, manifest lines) is modelled as       *)
(* sequences of one-character strings.                                     *)
(***************************************************************************)
EXTENDS Integers, Sequences, FiniteSets, TLC

\* ------------------------------------------------------------------ bounds

\* Longest file list handed to a concatenation.
MaxTracks == 3

\* _format_timestamp is exercised on every second count 0..MaxSmallSeconds
\* and on the boundary values of BoundarySeconds.
MaxSmallSeconds == 130

\* Longest file list of each of two overlapping concatenations.
MaxOverlapTracks == 2

\* Longest playlist a command downloads.
MaxEntries == 3

\* ------------------------------------------------------------------- text

DigitChars == <<"0", "1", "2", "3", "4", "5", "6", "7", "8", "9">>

RECURSIVE Digits(_)
\* str(n) for n >= 0: the decimal digits, no padding.
Digits(n) ==
    IF n < 10 THEN <<DigitChars[n + 1]>>
    ELSE Digits(n \div 10) \o <<DigitChars[(n % 10) + 1]>>

RECURSIVE PadLeft(_, _, _)
\* The format specs "02d" and "3d": pad on the left up to a minimum width,
\* never truncating.
PadLeft(s, width, fill) ==
    IF Len(s) >= width THEN s ELSE PadLeft(<<fill>> \o s, width, fill)

\* f"{hours:02d}:{minutes:02d}:{secs:02d}" with the wrong minutes field
\* (seconds // 60 without the reduction modulo one hour).
format_timestamp_minutes_not_reduced(seconds) ==
    LET hours   == seconds \div 3600
        minutes == seconds \div 60
        secs    == seconds % 60
    IN  PadLeft(Digits(hours), 2, "0") \o <<":">> \o
        PadLeft(Digits(minutes), 2, "0") \o <<":">> \o
        PadLeft(Digits(secs), 2, "0")

\* AudioConcatenator._format_timestamp
format_timestamp(seconds) ==
    LET hours   == seconds \div 3600
        minutes == (seconds % 3600) \div 60
        secs    == seconds % 60
    IN  PadLeft(Digits(hours), 2, "0") \o <<":">> \o
        PadLeft(Digits(minutes), 2, "0") \o <<":">> \o
        PadLeft(Digits(secs), 2, "0")

\* ----------------------------------------------------------------- tracks

\* The file info dictionaries the callers build (downloader.py 227-236,
\* cli.py 216-221), restricted to the keys the concatenator reads.
Catalogue ==
    { [path |-> <<"1", "-", "A">>,      title |-> "A",   duration |-> 120,
       track_number |-> 1],
      [path |-> <<"2", "-", "B">>,      title |-> "B",   duration |-> 90,
       track_number |-> 2],
      [path |-> <<"3", "-", "C">>,      title |-> "C",   duration |-> 200,
       track_number |-> 3],
      [path |-> <<"4", "-", "D", "'", "s">>, title |-> "D's", duration |-> 0,
       track_number |-> 4],
      [path |-> <<"5", "-", "E">>,      title |-> "E",   duration |-> 360000,
       track_number |-> 5] }

\* The file lists a caller can pass: any sequence of records, the empty one
\* and ones repeating a record included.
FileLists == UNION { [1..n -> Catalogue] : n \in 0..MaxTracks }

\* The seconds counts _format_timestamp is called with.
BoundarySeconds ==
    { 3599, 3600, 3661, 35999, 36000, 86399, 86400, 359999, 360000, 360001,
      3599999, 3600000 }

FormatInputs == (0..MaxSmallSeconds) \cup BoundarySeconds

\* ------------------------------------------------------------ timestamps

RECURSIVE timestamps_from(_, _, _)
\* The loop of _calculate_timestamps from index idx on, current_time being
\* the running cursor.
timestamps_from(file_list, idx, current_time) ==
    IF idx > Len(file_list) THEN <<>>
    ELSE
        LET file_info  == file_list[idx]
            duration   == file_info.duration
            start_time == current_time
            end_time   == current_time + duration
        IN  << [ track_number    |-> idx,
                 title           |-> file_info.title,
                 start           |-> start_time,
                 end             |-> end_time,
                 start_formatted |-> format_timestamp(start_time),
                 end_formatted   |-> format_timestamp(end_time),
                 duration        |-> duration ] >>
            \o timestamps_from(file_list, idx + 1, end_time)

\* _calculate_timestamps with the cursor never advanced: every track starts
\* at 0.
calculate_timestamps_cursor_stuck(file_list) ==
    [ i \in 1..Len(file_list) |->
        [ track_number    |-> i,
          title           |-> file_list[i].title,
          start           |-> 0,
          end             |-> file_list[i].duration,
          start_formatted |-> format_timestamp(0),
          end_formatted   |-> format_timestamp(file_list[i].duration),
          duration        |-> file_list[i].duration ] ]

\* AudioConcatenator._calculate_timestamps
calculate_timestamps(file_list) == timestamps_from(file_list, 1, 0)

\* "total_duration" of the returned dictionary (concatenate_files, line 72).
total_duration(timestamps) ==
    IF timestamps /= <<>> THEN timestamps[Len(timestamps)].end ELSE 0

\* -------------------------------------------------------------- manifest

RECURSIVE escape_quotes(_)
\* str.replace("'", "'\\''"): every single quote becomes the four
\* characters ' \ ' '.
escape_quotes(s) ==
    IF s = <<>> THEN <<>>
    ELSE (IF Head(s) = "'" THEN <<"'", "\\", "'", "'">> ELSE <<Head(s)>>)
         \o escape_quotes(Tail(s))

\* One line of the concat list: file '<escaped absolute path>'.
concat_line(file_path) ==
    <<"f", "i", "l", "e", " ", "'">> \o escape_quotes(file_path) \o <<"'">>

\* _create_concat_list writing the lines sorted by the track's own
\* track_number instead of in list order (here: the two first lines swapped
\* when they are out of track_number order).
create_concat_list_by_track_number(file_list) ==
    [ i \in 1..Len(file_list) |->
        IF Len(file_list) >= 2 /\ i <= 2
           /\ file_list[1].track_number > file_list[2].track_number
        THEN concat_line(file_list[3 - i].path)
        ELSE concat_line(file_list[i].path) ]

\* _create_concat_list building the list back to front (lines.insert(0, ...)
\* instead of lines.append).
create_concat_list_reversed(file_list) ==
    [ i \in 1..Len(file_list) |->
        concat_line(file_list[Len(file_list) + 1 - i].path) ]

\* AudioConcatenator._create_concat_list: the lines written to the file.
create_concat_list(file_list) ==
    [ i \in 1..Len(file_list) |-> concat_line(file_list[i].path) ]

\* ------------------------------------------------------------------ muxer

RECURSIVE unescape_quotes(_)
\* The concat demuxer's reading of a quoted path: '\'' stands for one
\* single quote.
unescape_quotes(s) ==
    IF s = <<>> THEN <<>>
    ELSE IF Len(s) >= 4 /\ SubSeq(s, 1, 4) = <<"'", "\\", "'", "'">>
         THEN <<"'">> \o unescape_quotes(SubSeq(s, 5, Len(s)))
         ELSE <<Head(s)>> \o unescape_quotes(Tail(s))

\* The input file one manifest line names to ffmpeg ("-f concat -safe 0").
muxer_input_of(line) == unescape_quotes(SubSeq(line, 7, Len(line) - 1))

\* The input files ffmpeg merges, in order, for a manifest.
muxer_inputs(lines) == [ i \in 1..Len(lines) |-> muxer_input_of(lines[i]) ]

\* What the muxer can print on failure, and its exit statuses.
MuxerDiagnostics == { "Invalid data found", "No such file or directory" }

FailureStatuses == { 1, 255 }

\* ------------------------------------------------------------- filesystem

\* A file of the output directory: kind is "absent", "old" (left by an
\* earlier run), "manifest", "partial" or "merged"; content is the manifest's
\* lines or the merged inputs in order.
AbsentFile == [ kind |-> "absent", content |-> <<>> ]

OldFile == [ kind |-> "old", content |-> <<>> ]

\* A file as the next call finds it.
left_behind(f) == IF f.kind = "absent" THEN AbsentFile ELSE OldFile

\* ------------------------------------------------------------------ state

NoResult == [ absent |-> TRUE ]

NoError == [ type |-> "none" ]

NoListing == <<>>

VARIABLES
    pc,             \* where the caller is: "idle", inside concatenate_files
                    \* ("muxing", "renaming"), after it ("returned", "raised"),
                    \* or after a direct call ("calculated", "formatted",
                    \* "listed")
    mode,           \* "none", "sequential" or "randomized"
    tracks,         \* the caller's list object
    tracks_before,  \* its value when the call was made
    file_list,      \* the file_list argument of concatenate_files /
                    \* _calculate_timestamps
    timestamps,     \* the timestamps computed from file_list
    concat_list,    \* the file concat_list.txt of the output directory
    temp_output,    \* the file <stem>_temp.mp3
    output,         \* the file at output_path
    muxer_runs,     \* per call: the manifests ffmpeg was started on, in order
    muxer_stderr,   \* what the last ffmpeg run printed
    result,         \* the dictionary returned
    error,          \* the exception raised
    concat_info,    \* the argument of generate_track_listing
    listing,        \* the lines generate_track_listing wrote
    seconds,        \* the argument of a direct _format_timestamp call
    formatted       \* its return value

VARIABLES
    command,        \* the command running: "none", "main" or "rerandomize"
    cli_pc,         \* the step the command is at
    update_tags,    \* --update-tags / --no-update-tags
    concatenate,    \* --concatenate / --no-concatenate
    entries,        \* info["entries"] of the playlist
    idx,            \* download_playlist's loop index
    attempt,        \* _download_video's loop variable
    sleeps,         \* the delays _download_video slept for the current item
    files,          \* downloaded_files / result["files"] / the scanned files
    tagged,         \* how many files of the list ID3Tagger.update_tags was
                    \* called on
    events,         \* what the run did so far, in order
    outcome,        \* how the command ended
    dir_name,       \* the name of the playlist directory
    directory,      \* the names of the files in the playlist directory
    run_concat,     \* concat_info of main
    run_randomized, \* randomized_concat_info
    run_listing,    \* the track listing written
    last_attempt,   \* the latest retrieval attempt: item, attempt, how it ended
    interrupted_at, \* the step a KeyboardInterrupt arrived at, or "none"
    cli_error       \* the exception that reached the command's handlers

VARIABLES
    invocations,    \* two overlapping concatenate_files calls writing into
                    \* one directory: per call its step, its file_list and
                    \* the manifest its ffmpeg read
    shared_list     \* the one concat_list.txt of that directory

cli_vars == << command, cli_pc, update_tags, concatenate, entries, idx, attempt,
               sleeps, files, tagged, events, outcome, dir_name, directory,
               run_concat, run_randomized, run_listing, last_attempt,
               interrupted_at, cli_error >>

overlap_vars == << invocations, shared_list >>

concatenator_vars ==
    << pc, mode, tracks, tracks_before, file_list, timestamps, concat_list,
       temp_output, output, muxer_runs, muxer_stderr, result, error,
       concat_info, listing, seconds, formatted >>

vars == << concatenator_vars, cli_vars, overlap_vars >>

call_vars == << mode, tracks, tracks_before, file_list, timestamps, muxer_runs,
                muxer_stderr, result, error >>

fs_vars == << concat_list, temp_output, output >>

listing_vars == << concat_info, listing >>

format_vars == << seconds, formatted >>

NoAttempt == [ item |-> 0, attempt |-> 0, ended |-> "none", raised |-> NoError ]

\* No command of cli.py is running.
NoCommand ==
    /\ command = "none"
    /\ cli_pc = "off"
    /\ update_tags = FALSE
    /\ concatenate = FALSE
    /\ entries = <<>>
    /\ idx = 0
    /\ attempt = 0
    /\ sleeps = <<>>
    /\ files = <<>>
    /\ tagged = 0
    /\ events = <<>>
    /\ outcome = "none"
    /\ dir_name = <<>>
    /\ directory = {}
    /\ run_concat = NoResult
    /\ run_randomized = NoResult
    /\ run_listing = NoListing
    /\ last_attempt = NoAttempt
    /\ interrupted_at = "none"
    /\ cli_error = NoError

\* No second call overlaps.
NoOverlap ==
    /\ invocations = <<>>
    /\ shared_list = AbsentFile

Init ==
    /\ pc = "idle"
    /\ mode = "none"
    /\ tracks = <<>>
    /\ tracks_before = <<>>
    /\ file_list = <<>>
    /\ timestamps = <<>>
    /\ concat_list = AbsentFile
    /\ temp_output = AbsentFile
    /\ output \in { AbsentFile, OldFile }
    /\ muxer_runs = <<>>
    /\ muxer_stderr = ""
    /\ result = NoResult
    /\ error = NoError
    /\ concat_info = NoResult
    /\ listing = NoListing
    /\ seconds = 0
    /\ formatted = <<>>
    /\ NoCommand
    /\ NoOverlap

\* ---------------------------------------------------- concatenate_files

\* The guard of lines 30-31 and 159-160 left out.
rejects_never(list) == FALSE

\* "if not file_list: raise ValueError" (lines 30-31 and 159-160).
rejects(list) == list = <<>>

ValueError == [ type |-> "ValueError", message |-> "No files to concatenate" ]

OSError == [ type |-> "OSError" ]

\* subprocess.run without capture_output: the exception carries no output.
called_process_error_uncaptured(status, stderr) ==
    [ type |-> "CalledProcessError", returncode |-> status, stderr |-> "" ]

\* What subprocess.run(check=True, capture_output=True, text=True) raises
\* on a non-zero exit status.
called_process_error(status, stderr) ==
    [ type |-> "CalledProcessError", returncode |-> status, stderr |-> stderr ]

\* The unlink placed after the rename inside the try block instead of in
\* the finally clause: it is reached on the normal path only.
cleanup_on_success_only(f, exit_path) ==
    IF exit_path = "return" THEN AbsentFile ELSE f

\* The finally clause (lines 64-67): concat_list.txt is unlinked when it
\* exists, on every way out of the try block.
cleanup(f, exit_path) ==
    IF f.kind /= "absent" THEN AbsentFile ELSE f

\* The output file name cli.py chooses (lines 120 and 134, 296).
output_path(m) ==
    IF m = "sequential" THEN "playlist_complete.mp3"
    ELSE "playlist_randomized_today.mp3"

\* The dictionary concatenate_files returns (lines 69-73).
concat_result(path, ts) ==
    [ path |-> path, timestamps |-> ts, total_duration |-> total_duration(ts) ]

\* result["shuffled_order"] = shuffled_list (line 170).
with_shuffled_order(r, shuffled_list) ==
    [ path |-> r.path, timestamps |-> r.timestamps,
      total_duration |-> r.total_duration, shuffled_order |-> shuffled_list ]

\* The shuffled order is never attached to the result.
returned_without_order(m, ts, list) == concat_result(output_path(m), ts)

\* What the call of the given mode returns: concatenate_files' dictionary,
\* to which concatenate_files_randomized adds the shuffled order.
returned(m, ts, list) ==
    IF m = "randomized"
    THEN with_shuffled_order(concat_result(output_path(m), ts), list)
    ELSE concat_result(output_path(m), ts)

\* All orderings of a list.
orderings(list) ==
    { [ i \in 1..Len(list) |-> list[p[i]] ] : p \in Permutations(1..Len(list)) }

\* random.shuffle on the caller's own list: no copy is made.
shuffle_in_place(list) ==
    { [ caller |-> s, shuffled |-> s ] : s \in orderings(list) }

\* random.choices instead of a shuffle: every position drawn independently.
shuffle_with_replacement(list) ==
    { [ caller |-> list, shuffled |-> s ] :
        s \in [ 1..Len(list) -> { list[i] : i \in 1..Len(list) } ] }

\* shuffled_list = file_list.copy(); random.shuffle(shuffled_list)
\* (lines 163-164): the caller's list afterwards and the shuffled copy.
shuffle(list) ==
    { [ caller |-> list, shuffled |-> s ] : s \in orderings(list) }

\* concatenate_files up to the start of ffmpeg (lines 30-38).
begin_concatenate(list) ==
    /\ file_list' = list
    /\ IF rejects(list)
       THEN /\ error' = ValueError
            /\ pc' = "raised"
            /\ UNCHANGED << timestamps, concat_list >>
       ELSE /\ error' = NoError
            /\ timestamps' = calculate_timestamps(list)
            /\ concat_list' = [ kind |-> "manifest",
                                content |-> create_concat_list(list) ]
            /\ pc' = "muxing"

\* AudioConcatenator.concatenate_files called by the caller.
ConcatenateFiles ==
    /\ pc = "idle"
    /\ \E list \in FileLists :
        /\ mode' = "sequential"
        /\ tracks' = list
        /\ tracks_before' = list
        /\ begin_concatenate(list)
    /\ UNCHANGED << temp_output, output, muxer_runs, muxer_stderr, result >>
    /\ UNCHANGED << listing_vars, format_vars >>
    /\ UNCHANGED << cli_vars, overlap_vars >>

\* AudioConcatenator.concatenate_files_randomized.
ConcatenateFilesRandomized ==
    /\ pc = "idle"
    /\ \E list \in FileLists :
        /\ mode' = "randomized"
        /\ tracks_before' = list
        /\ IF rejects(list)
           THEN /\ tracks' = list
                /\ error' = ValueError
                /\ pc' = "raised"
                /\ UNCHANGED << file_list, timestamps, concat_list >>
           ELSE \E s \in shuffle(list) :
                /\ tracks' = s.caller
                /\ begin_concatenate(s.shuffled)
    /\ UNCHANGED << temp_output, output, muxer_runs, muxer_stderr, result >>
    /\ UNCHANGED << listing_vars, format_vars >>
    /\ UNCHANGED << cli_vars, overlap_vars >>

\* subprocess.run (lines 45-59): ffmpeg reads concat_list.txt, writes
\* <stem>_temp.mp3 and exits with status 0.
MuxerSucceeds ==
    /\ pc = "muxing"
    /\ muxer_runs' = Append(muxer_runs, concat_list.content)
    /\ muxer_stderr' = ""
    /\ temp_output' = [ kind |-> "merged",
                        content |-> muxer_inputs(concat_list.content) ]
    /\ pc' = "renaming"
    /\ UNCHANGED << mode, tracks, tracks_before, file_list, timestamps,
                    concat_list, output, result, error >>
    /\ UNCHANGED << listing_vars, format_vars >>
    /\ UNCHANGED << cli_vars, overlap_vars >>

\* ffmpeg given output_path itself instead of <stem>_temp.mp3: a failing run
\* leaves what it wrote so far at output_path.
MuxerFailsWritingOutput ==
    /\ pc = "muxing"
    /\ muxer_runs' = Append(muxer_runs, concat_list.content)
    /\ \E status \in FailureStatuses, diag \in MuxerDiagnostics :
        /\ muxer_stderr' = diag
        /\ error' = called_process_error(status, diag)
    /\ output' \in { output, [ kind |-> "partial", content |-> <<>> ] }
    /\ concat_list' = cleanup(concat_list, "muxer failure")
    /\ pc' = "raised"
    /\ UNCHANGED << mode, tracks, tracks_before, file_list, timestamps,
                    temp_output, result >>
    /\ UNCHANGED << listing_vars, format_vars >>
    /\ UNCHANGED << cli_vars, overlap_vars >>

\* subprocess.run (lines 45-59) when ffmpeg exits with a non-zero status:
\* check=True raises, the finally clause runs, the exception leaves
\* concatenate_files.
MuxerFails ==
    /\ pc = "muxing"
    /\ muxer_runs' = Append(muxer_runs, concat_list.content)
    /\ \E status \in FailureStatuses, diag \in MuxerDiagnostics :
        /\ muxer_stderr' = diag
        /\ error' = called_process_error(status, diag)
    /\ temp_output' \in { temp_output, [ kind |-> "partial", content |-> <<>> ] }
    /\ concat_list' = cleanup(concat_list, "muxer failure")
    /\ pc' = "raised"
    /\ UNCHANGED << mode, tracks, tracks_before, file_list, timestamps,
                    output, result >>
    /\ UNCHANGED << listing_vars, format_vars >>
    /\ UNCHANGED << cli_vars, overlap_vars >>

\* temp_output.rename(output_path) (line 62), the finally clause and the
\* return (lines 64-73, 167-172).
RenameSucceeds ==
    /\ pc = "renaming"
    /\ output' = temp_output
    /\ temp_output' = AbsentFile
    /\ concat_list' = cleanup(concat_list, "return")
    /\ result' = returned(mode, timestamps, file_list)
    /\ pc' = "returned"
    /\ UNCHANGED << mode, tracks, tracks_before, file_list, timestamps,
                    muxer_runs, muxer_stderr, error >>
    /\ UNCHANGED << listing_vars, format_vars >>
    /\ UNCHANGED << cli_vars, overlap_vars >>

\* temp_output.rename(output_path) (line 62) raising OSError: the finally
\* clause runs and the exception leaves concatenate_files.
RenameFails ==
    /\ pc = "renaming"
    /\ error' = OSError
    /\ concat_list' = cleanup(concat_list, "rename failure")
    /\ pc' = "raised"
    /\ UNCHANGED << mode, tracks, tracks_before, file_list, timestamps,
                    temp_output, output, muxer_runs, muxer_stderr, result >>
    /\ UNCHANGED << listing_vars, format_vars >>
    /\ UNCHANGED << cli_vars, overlap_vars >>

\* ---------------------------------------------------------- track listing

PlaylistTitle == "Playlist"

\* The lines of the listing, one record per line.
RuleLine == [ kind |-> "rule" ]

BlankLine == [ kind |-> "blank" ]

TextLine(text) == [ kind |-> "text", text |-> text ]

\* The three lines appended per timestamp (lines 207-210).
track_block(ts) ==
    << [ kind |-> "track", number |-> PadLeft(Digits(ts.track_number), 3, " "),
         title |-> ts.title ],
       [ kind |-> "interval", start |-> ts.start_formatted,
         end |-> ts.end_formatted ],
       BlankLine >>

RECURSIVE track_blocks(_)
track_blocks(tss) ==
    IF tss = <<>> THEN <<>>
    ELSE track_block(Head(tss)) \o track_blocks(Tail(tss))

listing_header(info, playlist_title) ==
    << RuleLine, TextLine("RANDOMIZED TRACK LISTING"), RuleLine, BlankLine,
       [ kind |-> "playlist", title |-> playlist_title ],
       [ kind |-> "generated" ],
       [ kind |-> "total", text |-> format_timestamp(info.total_duration) ],
       BlankLine, RuleLine, TextLine("TRACK ORDER"), RuleLine, BlankLine >>

listing_footer ==
    << RuleLine, TextLine("Generated by StreamsToFiles"), RuleLine >>

\* The listing written in the track's title order instead of the order of
\* the timestamps (here: the first two blocks swapped).
generate_track_listing_reordered(info, playlist_title) ==
    listing_header(info, playlist_title)
    \o (IF Len(info.timestamps) >= 2
        THEN track_block(info.timestamps[2]) \o track_block(info.timestamps[1])
             \o track_blocks(SubSeq(info.timestamps, 3, Len(info.timestamps)))
        ELSE track_blocks(info.timestamps))
    \o listing_footer

\* AudioConcatenator.generate_track_listing: the lines written.
generate_track_listing(info, playlist_title) ==
    listing_header(info, playlist_title)
    \o track_blocks(info.timestamps)
    \o listing_footer

\* A result with zero entries.
EmptyConcatInfo == concat_result(output_path("randomized"), <<>>)

\* generate_track_listing called on the result of the randomized
\* concatenation (cli.py 136-150, 298-315).
GenerateTrackListing ==
    /\ pc = "returned"
    /\ mode = "randomized"
    /\ concat_info' = result
    /\ listing' = generate_track_listing(result, PlaylistTitle)
    /\ pc' = "listed"
    /\ UNCHANGED << call_vars, fs_vars, format_vars >>
    /\ UNCHANGED << cli_vars, overlap_vars >>

\* generate_track_listing called on a result with zero entries.
GenerateEmptyTrackListing ==
    /\ pc = "idle"
    /\ concat_info' = EmptyConcatInfo
    /\ listing' = generate_track_listing(EmptyConcatInfo, PlaylistTitle)
    /\ pc' = "listed"
    /\ UNCHANGED << call_vars, fs_vars, format_vars >>
    /\ UNCHANGED << cli_vars, overlap_vars >>

\* ------------------------------------------------------------ direct calls

\* AudioConcatenator._calculate_timestamps called on a list, the empty one
\* included.
CalculateTimestamps ==
    /\ pc = "idle"
    /\ \E list \in FileLists :
        /\ file_list' = list
        /\ timestamps' = calculate_timestamps(list)
    /\ pc' = "calculated"
    /\ UNCHANGED << mode, tracks, tracks_before, muxer_runs, muxer_stderr,
                    result, error >>
    /\ UNCHANGED << fs_vars, listing_vars, format_vars >>
    /\ UNCHANGED << cli_vars, overlap_vars >>

\* AudioConcatenator._format_timestamp called on a number of seconds
\* (cli.py 128, 276, 304).
FormatTimestamp ==
    /\ pc = "idle"
    /\ \E s \in FormatInputs :
        /\ seconds' = s
        /\ formatted' = format_timestamp(s)
    /\ pc' = "formatted"
    /\ UNCHANGED << call_vars, fs_vars, listing_vars >>
    /\ UNCHANGED << cli_vars, overlap_vars >>

\* The caller goes on to its next call: the files stay where they are.
NextCall ==
    /\ pc \in { "returned", "raised", "listed", "calculated", "formatted" }
    /\ pc' = "idle"
    /\ mode' = "none"
    /\ tracks' = <<>>
    /\ tracks_before' = <<>>
    /\ file_list' = <<>>
    /\ timestamps' = <<>>
    /\ muxer_runs' = <<>>
    /\ muxer_stderr' = ""
    /\ result' = NoResult
    /\ error' = NoError
    /\ concat_info' = NoResult
    /\ listing' = NoListing
    /\ seconds' = 0
    /\ formatted' = <<>>
    /\ concat_list' = left_behind(concat_list)
    /\ temp_output' = left_behind(temp_output)
    /\ output' = left_behind(output)
    /\ UNCHANGED << cli_vars, overlap_vars >>

Next ==
    \/ ConcatenateFiles
    \/ ConcatenateFilesRandomized
    \/ MuxerSucceeds
    \/ MuxerFails
    \/ RenameSucceeds
    \/ RenameFails
    \/ GenerateTrackListing
    \/ GenerateEmptyTrackListing
    \/ CalculateTimestamps
    \/ FormatTimestamp
    \/ NextCall

Spec == Init /\ [][Next]_vars

\* ===================================================================
\* Properties
\* ===================================================================

RECURSIVE SumDurations(_)
SumDurations(list) ==
    IF list = <<>> THEN 0 ELSE Head(list).duration + SumDurations(Tail(list))

Durations(list) == [ i \in 1..Len(list) |-> list[i].duration ]

Paths(list) == [ i \in 1..Len(list) |-> list[i].path ]

\* How often x occurs in a sequence.
Occurrences(x, list) == Cardinality({ i \in 1..Len(list) : list[i] = x })

SameMultiset(a, b) ==
    /\ Len(a) = Len(b)
    /\ \A x \in Catalogue : Occurrences(x, a) = Occurrences(x, b)

\* The states in which timestamps holds _calculate_timestamps(file_list).
TimestampsComputed ==
    \/ pc \in { "calculated", "muxing", "renaming", "returned" }
    \/ pc = "raised" /\ error /= ValueError
    \/ pc = "listed" /\ mode = "randomized"

\* Entry i of ts describes track i of list: position, title and duration.
Aligned(ts, list) ==
    /\ Len(ts) = Len(list)
    /\ \A i \in 1..Len(list) :
        /\ ts[i].track_number = i
        /\ ts[i].title = list[i].title
        /\ ts[i].duration = list[i].duration

\* C1: the timestamps computed for a list of tracks start at 0, each entry
\* ends its duration after its start, each entry starts where the previous
\* one ends, and the total duration (also the one concatenate_files returns)
\* is the sum of the durations, 0 for the empty list; durations 120, 90, 200
\* give (0,120), (120,210), (210,410) and total 410.
C1_TimestampsContiguous ==
    TimestampsComputed =>
        /\ Len(timestamps) = Len(file_list)
        /\ (timestamps /= <<>> => timestamps[1].start = 0)
        /\ \A i \in 1..Len(timestamps) :
            timestamps[i].end = timestamps[i].start + file_list[i].duration
        /\ \A i \in 1..(Len(timestamps) - 1) :
            timestamps[i + 1].start = timestamps[i].end
        /\ total_duration(timestamps) = SumDurations(file_list)
        /\ (file_list = <<>> => timestamps = <<>> /\ total_duration(timestamps) = 0)
        /\ (pc \in { "returned", "listed" } =>
                result.total_duration = SumDurations(file_list))
        /\ (Durations(file_list) = <<120, 90, 200>> =>
                /\ [ i \in 1..3 |-> <<timestamps[i].start, timestamps[i].end>> ]
                     = << <<0, 120>>, <<120, 210>>, <<210, 410>> >>
                /\ total_duration(timestamps) = 410)

C1_Witness ==
    /\ pc = "returned"
    /\ Durations(file_list) = <<120, 90, 200>>
    /\ result.total_duration = 410
    /\ timestamps[3].start = 210

\* The first manifest ffmpeg was started on, as the input files it names.
MergedPaths == muxer_inputs(muxer_runs[1])

HasResult == pc \in { "returned", "listed" } /\ mode /= "none"

ManifestMatches(lines) ==
    /\ Len(lines) = Len(timestamps)
    /\ \A i \in 1..Len(lines) :
        /\ lines[i] = concat_line(file_list[i].path)
        /\ muxer_input_of(lines[i]) = file_list[i].path
        /\ timestamps[i].title = file_list[i].title
        /\ timestamps[i].duration = file_list[i].duration
        /\ timestamps[i].track_number = i

\* C3: in both modes the manifest handed to ffmpeg lists the input files in
\* the order the timestamps were computed from: line i names the file of
\* the track entry i describes, no line added, dropped or reordered.
C3_ManifestInTimestampOrder ==
    /\ (concat_list.kind = "manifest" => ManifestMatches(concat_list.content))
    /\ \A r \in 1..Len(muxer_runs) : ManifestMatches(muxer_runs[r])

C3_Witness ==
    /\ pc = "renaming"
    /\ mode = "randomized"
    /\ file_list /= tracks
    /\ Len(muxer_runs) = 1
    /\ Len(muxer_runs[1]) = 3
    /\ \E i \in 1..3 : file_list[i].title = "D's"
    /\ file_list[1].track_number > file_list[2].track_number

\* C4: for a non-empty input the order of a randomized concatenation (handed
\* to ffmpeg, returned as shuffled_order) is a permutation of the input,
\* and the caller's list is the same after the call as before it.
C4_ShuffleIsPermutation ==
    (mode = "randomized" /\ tracks_before /= <<>>) =>
        /\ SameMultiset(file_list, tracks_before)
        /\ tracks = tracks_before
        /\ (muxer_runs /= <<>> => MergedPaths = Paths(file_list))
        /\ (HasResult =>
                /\ SameMultiset(result.shuffled_order, tracks_before)
                /\ Paths(result.shuffled_order) = MergedPaths)

C4_Witness ==
    /\ pc = "returned"
    /\ mode = "randomized"
    /\ Len(tracks) = 3
    /\ tracks[1] = tracks[3]
    /\ tracks[1] /= tracks[2]
    /\ result.shuffled_order /= tracks

\* C5: in sequential mode the merge order is the input order: manifest and
\* timestamps follow the input element for element and the caller's list
\* and its records are what they were before the call.
C5_SequentialKeepsOrder ==
    (mode = "sequential" /\ tracks_before /= <<>>) =>
        /\ tracks = tracks_before
        /\ file_list = tracks_before
        /\ Aligned(timestamps, tracks_before)
        /\ (concat_list.kind = "manifest" =>
                muxer_inputs(concat_list.content) = Paths(tracks_before))
        /\ (muxer_runs /= <<>> => MergedPaths = Paths(tracks_before))
        /\ (output.kind = "merged" => output.content = Paths(tracks_before))

C5_Witness ==
    /\ pc = "returned"
    /\ mode = "sequential"
    /\ Len(tracks) = 3
    /\ tracks[1].track_number > tracks[2].track_number
    /\ output.content = Paths(tracks)

\* C6: a concatenation called with an empty list, in either mode, raises
\* the empty-input error before any side effect: the step that takes the
\* call leaves concat_list.txt, the temporary output and the output file as
\* they were and starts no ffmpeg, and no later step of that call exists.
C6_EmptyInputRejected ==
    /\ [][ (pc = "idle" /\ mode' /= "none" /\ tracks_before' = <<>>) =>
             /\ pc' = "raised"
             /\ error' = ValueError
             /\ result' = NoResult
             /\ muxer_runs' = <<>>
             /\ UNCHANGED fs_vars ]_vars
    /\ []( (mode /= "none" /\ tracks_before = <<>>) =>
             /\ pc = "raised"
             /\ error = ValueError
             /\ result = NoResult
             /\ muxer_runs = <<>>
             /\ concat_list = AbsentFile
             /\ temp_output.kind \in { "absent", "old" }
             /\ output.kind \in { "absent", "old" } )
    /\ []( error = ValueError => tracks_before = <<>> )

C6_Witness ==
    /\ pc = "raised"
    /\ mode = "randomized"
    /\ tracks_before = <<>>
    /\ error = ValueError
    /\ output = OldFile

\* The call is over: it returned or raised.
CallOver == pc \in { "returned", "raised", "listed" } /\ mode /= "none"

\* C7: once a concatenation call that wrote concat_list.txt has returned or
\* raised (normal return, ffmpeg failure, failed rename), concat_list.txt
\* is absent from the output directory.
C7_ManifestRemoved ==
    /\ (CallOver => concat_list = AbsentFile)
    /\ (pc = "idle" => concat_list = AbsentFile)

C7_Witness ==
    /\ pc = "raised"
    /\ error.type = "CalledProcessError"
    /\ Len(muxer_runs) = 1
    /\ muxer_runs[1] /= <<>>
    /\ concat_list = AbsentFile

\* C8: ffmpeg is started once per concatenation call (never for a call
\* rejected for its empty input, never twice); when it exits with a non-zero
\* status the call raises an error carrying that status and the output
\* ffmpeg printed, and returns no result.
C8_MuxerInvokedOnce ==
    /\ Len(muxer_runs) <= 1
    /\ ((CallOver /\ tracks_before /= <<>>) => Len(muxer_runs) = 1)
    /\ (pc = "renaming" => Len(muxer_runs) = 1)
    /\ (error.type = "CalledProcessError" =>
            /\ pc = "raised"
            /\ result = NoResult
            /\ Len(muxer_runs) = 1
            /\ error.returncode /= 0
            /\ error.stderr = muxer_stderr
            /\ muxer_stderr \in MuxerDiagnostics)
    /\ ((CallOver /\ muxer_stderr \in MuxerDiagnostics) =>
            /\ pc = "raised"
            /\ error.type = "CalledProcessError")

C8_Witness ==
    /\ pc = "raised"
    /\ error.type = "CalledProcessError"
    /\ error.returncode = 255
    /\ error.stderr = "Invalid data found"
    /\ mode = "sequential"
    /\ Len(muxer_runs) = 1

\* ----------------------------------------------------- reading HH:MM:SS

RECURSIVE FieldsOf(_, _)
\* The fields of a text separated by ":", cur being the field read so far.
FieldsOf(s, cur) ==
    IF s = <<>> THEN <<cur>>
    ELSE IF Head(s) = ":" THEN <<cur>> \o FieldsOf(Tail(s), <<>>)
    ELSE FieldsOf(Tail(s), Append(cur, Head(s)))

IsDigit(c) == \E d \in 1..10 : DigitChars[d] = c

DigitValue(c) == (CHOOSE d \in 1..10 : DigitChars[d] = c) - 1

RECURSIVE NumberOf(_)
\* int(field) for a non-empty field of decimal digits.
NumberOf(field) ==
    IF Len(field) = 1 THEN DigitValue(field[1])
    ELSE 10 * NumberOf(SubSeq(field, 1, Len(field) - 1))
         + DigitValue(field[Len(field)])

AllDigits(field) ==
    /\ field /= <<>>
    /\ \A i \in 1..Len(field) : IsDigit(field[i])

\* text is "HH:MM:SS" for s seconds: three fields of digits, MM and SS of
\* exactly two digits, HH of two digits or, from 100 hours on, of as many
\* digits as the hour count has; the fields read back give s.
IsClockText(text, s) ==
    LET f == FieldsOf(text, <<>>)
    IN  /\ Len(f) = 3
        /\ \A k \in 1..3 : AllDigits(f[k])
        /\ Len(f[3]) = 2
        /\ NumberOf(f[3]) = s % 60
        /\ Len(f[2]) = 2
        /\ NumberOf(f[2]) = (s \div 60) % 60
        /\ Len(f[1]) >= 2
        /\ (Len(f[1]) > 2 => f[1][1] /= "0")
        /\ NumberOf(f[1]) = s \div 3600
        /\ NumberOf(f[1]) * 3600 + NumberOf(f[2]) * 60 + NumberOf(f[3]) = s

\* C9: for every number of seconds s >= 0 _format_timestamp returns
\* HH:MM:SS with SS = s mod 60 and MM = (s div 60) mod 60 on exactly two
\* digits and HH = s div 3600 on at least two digits, without upper bound
\* (0 -> 00:00:00, 3661 -> 01:01:01, 360000 -> 100:00:00); reading the
\* three fields back gives s.
C9_FormatTimestamp ==
    pc = "formatted" =>
        /\ IsClockText(formatted, seconds)
        /\ (seconds = 0 =>
                formatted = <<"0", "0", ":", "0", "0", ":", "0", "0">>)
        /\ (seconds = 3661 =>
                formatted = <<"0", "1", ":", "0", "1", ":", "0", "1">>)
        /\ (seconds = 360000 =>
                formatted = <<"1", "0", "0", ":", "0", "0", ":", "0", "0">>)

C9_Witness ==
    /\ pc = "formatted"
    /\ seconds = 360000
    /\ formatted = <<"1", "0", "0", ":", "0", "0", ":", "0", "0">>

\* The number of lines of the listing before the first track block.
HeaderLines == Len(listing_header(EmptyConcatInfo, PlaylistTitle))

FooterLines == Len(listing_footer)

\* C10: the listing written for a randomized concatenation has one block per
\* timestamp entry, in the order ffmpeg merged the tracks (the shuffled
\* order), block i showing position i, the title of the i-th merged track
\* and its [start - end] interval as HH:MM:SS, and a total duration equal to
\* the last entry's end; a result with zero entries gives a listing with no
\* block and total duration 0.
C10_ListingFollowsMergeOrder ==
    pc = "listed" =>
        LET ts == concat_info.timestamps
            n  == Len(ts)
            block(i) == HeaderLines + 3 * (i - 1)
        IN  /\ Len(listing) = HeaderLines + 3 * n + FooterLines
            /\ { k \in 1..Len(listing) : listing[k].kind = "track" }
                 = { block(i) + 1 : i \in 1..n }
            /\ \A i \in 1..n :
                /\ listing[block(i) + 1].kind = "track"
                /\ listing[block(i) + 1].number = PadLeft(Digits(i), 3, " ")
                /\ listing[block(i) + 1].title = ts[i].title
                /\ listing[block(i) + 2].kind = "interval"
                /\ IsClockText(listing[block(i) + 2].start, ts[i].start)
                /\ IsClockText(listing[block(i) + 2].end, ts[i].end)
            /\ \E k \in 1..HeaderLines :
                /\ listing[k].kind = "total"
                /\ IsClockText(listing[k].text, IF n = 0 THEN 0 ELSE ts[n].end)
            /\ (mode = "randomized" =>
                    /\ n = Len(MergedPaths)
                    /\ concat_info = result
                    /\ \A i \in 1..n :
                        /\ file_list[i].path = MergedPaths[i]
                        /\ listing[block(i) + 1].title = file_list[i].title
                        /\ ts[i].end - ts[i].start = file_list[i].duration)
            /\ (mode = "none" => n = 0 /\ concat_info.total_duration = 0)

C10_Witness ==
    /\ pc = "listed"
    /\ mode = "randomized"
    /\ Len(file_list) = 3
    /\ file_list /= tracks
    /\ file_list[1].track_number > file_list[2].track_number
    /\ listing[HeaderLines + 1].title = file_list[1].title

\* C19: the file at output_path is created or replaced only by the rename
\* that follows an ffmpeg run with exit status 0; ffmpeg itself writes
\* <stem>_temp.mp3.  Up to the rename, and in particular when the call
\* raises because ffmpeg failed, the file at output_path is what it was
\* before the call, never a partial file.
C19_OutputReplacedOnlyAfterSuccess ==
    /\ [][ (pc \in { "idle", "muxing", "renaming" }
            /\ pc' \in { "muxing", "renaming", "raised" })
           => output' = output ]_vars
    /\ [][ (output' /= output /\ pc /= "idle" /\ pc' /= "idle") =>
             /\ pc = "renaming"
             /\ pc' = "returned"
             /\ Len(muxer_runs) = 1
             /\ muxer_stderr = ""
             /\ temp_output.kind = "merged"
             /\ output' = temp_output ]_vars
    /\ [](output.kind /= "partial")
    /\ [](pc = "raised" => output.kind \in { "absent", "old" })

C19_Witness ==
    /\ pc = "raised"
    /\ error.type = "CalledProcessError"
    /\ temp_output.kind = "partial"
    /\ output = OldFile

\* C20: after a concatenation call has returned or raised, no intermediate
\* file the call created is left: neither concat_list.txt nor the temporary
\* output <stem>_temp.mp3 the call's ffmpeg run wrote.
C20_NoIntermediateFileLeft ==
    CallOver =>
        /\ concat_list = AbsentFile
        /\ temp_output.kind \notin { "partial", "merged" }

\* ===================================================================
\* Two concatenations overlapping in one output directory
\* ===================================================================

\* The concatenator at rest, as the other specifications leave it.
ConcatenatorIdle ==
    /\ pc = "idle"
    /\ mode = "none"
    /\ tracks = <<>>
    /\ tracks_before = <<>>
    /\ file_list = <<>>
    /\ timestamps = <<>>
    /\ concat_list = AbsentFile
    /\ temp_output = AbsentFile
    /\ output = AbsentFile
    /\ muxer_runs = <<>>
    /\ muxer_stderr = ""
    /\ result = NoResult
    /\ error = NoError
    /\ concat_info = NoResult
    /\ listing = NoListing
    /\ seconds = 0
    /\ formatted = <<>>

\* The two calls: a download run and a re-randomize run on one playlist
\* directory, each with its own output_path.
Callers == { 1, 2 }

OverlapLists == UNION { [1..n -> Catalogue] : n \in 1..MaxOverlapTracks }

\* What a call's ffmpeg read when it opened concat_list.txt.
NothingRead == [ opened |-> FALSE, found |-> FALSE, lines |-> <<>> ]

\* concat_list_path = output_path.parent / "concat_list.txt" (line 37): the
\* path depends on the directory only, so both calls use shared_list.
InitOverlap ==
    /\ ConcatenatorIdle
    /\ NoCommand
    /\ invocations \in [ Callers -> [ step : { "called" },
                                      file_list : OverlapLists,
                                      read : { NothingRead },
                                      error : { NoError } ] ]
    /\ shared_list = AbsentFile

\* Lines 30-38 of call p: the timestamps are computed and concat_list.txt
\* is written, replacing what is there.
OverlapWriteList(p) ==
    /\ invocations[p].step = "called"
    /\ shared_list' = [ kind |-> "manifest",
                        content |-> create_concat_list(invocations[p].file_list) ]
    /\ invocations' = [ invocations EXCEPT ![p].step = "muxing" ]

\* ffmpeg of call p starts and opens concat_list.txt (lines 45-59).
OverlapMuxerOpens(p) ==
    /\ invocations[p].step = "muxing"
    /\ invocations' =
         [ invocations EXCEPT
             ![p].step = "running",
             ![p].read = [ opened |-> TRUE,
                           found  |-> shared_list.kind /= "absent",
                           lines  |-> shared_list.content ] ]
    /\ UNCHANGED shared_list

\* ffmpeg of call p exits: with status 0 only when it found its list; with
\* a non-zero status check=True raises and the finally clause runs.
OverlapMuxerExits(p) ==
    /\ invocations[p].step = "running"
    /\ \/ /\ invocations[p].read.found
          /\ invocations' = [ invocations EXCEPT ![p].step = "renaming" ]
          /\ UNCHANGED shared_list
       \/ /\ \E status \in FailureStatuses, diag \in MuxerDiagnostics :
               invocations' =
                 [ invocations EXCEPT
                     ![p].step = "raised",
                     ![p].error = called_process_error(status, diag) ]
          /\ shared_list' = cleanup(shared_list, "muxer failure")

\* The rename, the finally clause and the return of call p (lines 61-73).
OverlapReturns(p) ==
    /\ invocations[p].step = "renaming"
    /\ invocations' = [ invocations EXCEPT ![p].step = "returned" ]
    /\ shared_list' = cleanup(shared_list, "return")

OverlapWrite ==
    /\ \E p \in Callers : OverlapWriteList(p)
    /\ UNCHANGED << concatenator_vars, cli_vars >>

OverlapOpen ==
    /\ \E p \in Callers : OverlapMuxerOpens(p)
    /\ UNCHANGED << concatenator_vars, cli_vars >>

OverlapExit ==
    /\ \E p \in Callers : OverlapMuxerExits(p)
    /\ UNCHANGED << concatenator_vars, cli_vars >>

OverlapReturn ==
    /\ \E p \in Callers : OverlapReturns(p)
    /\ UNCHANGED << concatenator_vars, cli_vars >>

NextOverlap ==
    \/ OverlapWrite
    \/ OverlapOpen
    \/ OverlapExit
    \/ OverlapReturn

SpecOverlap == InitOverlap /\ [][NextOverlap]_vars

\* C17: when two concatenations writing into one directory overlap, each
\* ffmpeg reads a manifest holding exactly its own call's track order, and
\* between a call's writing its manifest and its ffmpeg's reading it no other
\* call replaces or removes it.
C17_ManifestScopedToInvocation ==
    \A p \in Callers :
        LET own == create_concat_list(invocations[p].file_list)
        IN  /\ (invocations[p].step = "muxing" =>
                    shared_list = [ kind |-> "manifest", content |-> own ])
            /\ (invocations[p].read.opened =>
                    /\ invocations[p].read.found
                    /\ invocations[p].read.lines = own)

\* ===================================================================
\* The commands of cli.py: main (download run) and rerandomize
\* ===================================================================

\* ------------------------------------------------------------- file names

RECURSIVE replace_invalid(_)
\* re.sub(r'[/\\:*?"<>|]', '_', name) followed by replace(' ', '_').
replace_invalid(name) ==
    IF name = <<>> THEN <<>>
    ELSE (IF Head(name) \in { "/", "\\", ":", "*", "?", "\"", "<", ">", "|", " " }
          THEN <<"_">> ELSE <<Head(name)>>)
         \o replace_invalid(Tail(name))

RECURSIVE collapse_underscores(_)
\* re.sub(r'_+', '_', sanitized)
collapse_underscores(name) ==
    IF Len(name) < 2 THEN name
    ELSE IF name[1] = "_" /\ name[2] = "_" THEN collapse_underscores(Tail(name))
    ELSE <<Head(name)>> \o collapse_underscores(Tail(name))

RECURSIVE rstrip_underscores(_)
rstrip_underscores(name) ==
    IF name /= <<>> /\ name[Len(name)] = "_"
    THEN rstrip_underscores(SubSeq(name, 1, Len(name) - 1))
    ELSE name

RECURSIVE lstrip_underscores(_)
lstrip_underscores(name) ==
    IF name /= <<>> /\ Head(name) = "_" THEN lstrip_underscores(Tail(name))
    ELSE name

\* utils.sanitize_filename
sanitize_filename(name, max_length) ==
    LET sanitized ==
            lstrip_underscores(rstrip_underscores(
                collapse_underscores(replace_invalid(name))))
    IN  IF Len(sanitized) > max_length
        THEN rstrip_underscores(SubSeq(sanitized, 1, max_length))
        ELSE sanitized

\* utils.format_track_number: str(track_num).zfill(len(str(total_tracks)))
format_track_number(track_num, total_tracks) ==
    PadLeft(Digits(track_num), Len(Digits(total_tracks)), "0")

Mp3Suffix == <<".", "m", "p", "3">>

\* f"{track_num}-{sanitized_title}.mp3" (downloader.py 173-176, 220).
track_file_name(track_num, video_title) ==
    track_num \o <<"-">> \o sanitize_filename(video_title, 80) \o Mp3Suffix

\* date.today().isoformat()
Today == <<"2", "0", "2", "6", "-", "1", "1", "-", "0", "1">>

\* f"{playlist_dir.name}_complete.mp3" (cli.py 120).
complete_file_name(dir) ==
    dir \o <<"_", "c", "o", "m", "p", "l", "e", "t", "e">> \o Mp3Suffix

\* f"{directory.name}_randomized_{today}.mp3" (cli.py 134, 296).
randomized_file_name(dir) ==
    dir \o <<"_", "r", "a", "n", "d", "o", "m", "i", "z", "e", "d", "_">>
        \o Today \o Mp3Suffix

\* --------------------------------------------------------------- playlist

\* The entries yt-dlp reports for the playlist, by position.
Videos ==
    << [ title |-> <<"A">>,           duration |-> 120 ],
       [ title |-> <<"B", " ", "b">>, duration |-> 90 ],
       [ title |-> <<"C">>,           duration |-> 200 ],
       [ title |-> <<"D", "'", "s">>, duration |-> 0 ],
       [ title |-> <<"E">>,           duration |-> 360000 ] >>

\* An entry yt-dlp reports as None (downloader.py 89).
NoneEntry == [ unavailable |-> TRUE ]

Playlists ==
    UNION { { [ i \in 1..n |-> IF i \in gone THEN NoneEntry ELSE Videos[i] ] :
                gone \in SUBSET (1..n) } : n \in 0..MaxEntries }

\* The playlist titles; the directory is named sanitize_filename(title)
\* (downloader.py 83-84).
PlaylistTitles == { <<"M", "i", "x">>, <<"8", "0", "-", "s", " ", "M", "i", "x">> }

DirNames == { sanitize_filename(t, 100) : t \in PlaylistTitles }

\* The dictionary _download_video returns (downloader.py 227-236); artist,
\* album and url are left out.
file_info(entry, track_index, total_tracks) ==
    [ path         |-> track_file_name(
                           format_track_number(track_index, total_tracks),
                           entry.title),
      title        |-> entry.title,
      duration     |-> entry.duration,
      track_number |-> track_index,
      total_tracks |-> total_tracks ]

\* ------------------------------------------------------ playlist directory

\* A file of the playlist directory: its name, what wrote it ("track",
\* "complete", "randomized"), its audio length and its TIT2 tag (<<>> when
\* it has none).
track_file(info) ==
    [ name |-> info.path, role |-> "track", duration |-> info.duration,
      tag_title |-> info.title ]

complete_file(dir, seconds_long) ==
    [ name |-> complete_file_name(dir), role |-> "complete",
      duration |-> seconds_long, tag_title |-> <<>> ]

randomized_file(dir, seconds_long) ==
    [ name |-> randomized_file_name(dir), role |-> "randomized",
      duration |-> seconds_long, tag_title |-> <<>> ]

\* The tracks an earlier download run of n videos left in the directory.
downloaded_tracks(n) == { track_file(file_info(Videos[i], i, n)) : i \in 1..n }

RECURSIVE SumOfVideos(_)
SumOfVideos(n) == IF n = 0 THEN 0 ELSE Videos[n].duration + SumOfVideos(n - 1)

\* The directories rerandomize can be pointed at: the tracks of an earlier
\* run, with or without the concatenated files earlier runs wrote.
ExistingDirectories(dir) ==
    UNION { { downloaded_tracks(n) \cup merged :
                merged \in IF n = 0 THEN { {} }
                           ELSE SUBSET { complete_file(dir, SumOfVideos(n)),
                                         randomized_file(dir, SumOfVideos(n)) } } :
            n \in 0..MaxEntries }

\* ------------------------------------------------- scan_existing_tracks

\* str.endswith
EndsWith(name, suffix) ==
    /\ Len(name) >= Len(suffix)
    /\ SubSeq(name, Len(name) - Len(suffix) + 1, Len(name)) = suffix

RECURSIVE LeadingDigits(_)
\* How many decimal digits name starts with.
LeadingDigits(name) ==
    IF name /= <<>> /\ (\E d \in 1..10 : DigitChars[d] = Head(name))
    THEN 1 + LeadingDigits(Tail(name))
    ELSE 0

RECURSIVE IntOf(_)
\* int(text) for a text of decimal digits.
IntOf(text) ==
    IF text = <<>> THEN 0
    ELSE 10 * IntOf(SubSeq(text, 1, Len(text) - 1))
         + (CHOOSE d \in 0..9 : DigitChars[d + 1] = text[Len(text)])

\* re.compile(r"^(\d+)-(.+)\.mp3$").match(name): digits, a dash, at least
\* one character, ".mp3".
pattern_matches(name) ==
    LET k == LeadingDigits(name)
    IN  /\ k >= 1
        /\ Len(name) >= k + 2 + Len(Mp3Suffix)
        /\ name[k + 1] = "-"
        /\ EndsWith(name, Mp3Suffix)

\* match.group(1) and match.group(2)
pattern_group1(name) == SubSeq(name, 1, LeadingDigits(name))

pattern_group2(name) ==
    SubSeq(name, LeadingDigits(name) + 2, Len(name) - Len(Mp3Suffix))

RECURSIVE underscores_to_spaces(_)
underscores_to_spaces(text) ==
    IF text = <<>> THEN <<>>
    ELSE <<IF Head(text) = "_" THEN " " ELSE Head(text)>>
         \o underscores_to_spaces(Tail(text))

CompleteSuffix == <<"_", "c", "o", "m", "p", "l", "e", "t", "e">> \o Mp3Suffix

RandomizedSuffix ==
    <<"_", "r", "a", "n", "d", "o", "m", "i", "z", "e", "d">> \o Mp3Suffix

\* "Skip concatenated files" (cli.py 199-201).
skipped_as_concatenated(name) ==
    EndsWith(name, CompleteSuffix) \/ EndsWith(name, RandomizedSuffix)

\* The dictionary scan_existing_tracks builds for a file (cli.py 205-221).
scanned_info(f) ==
    [ path         |-> f.name,
      title        |-> IF f.tag_title /= <<>> THEN f.tag_title
                       ELSE underscores_to_spaces(pattern_group2(f.name)),
      duration     |-> f.duration,
      track_number |-> IntOf(pattern_group1(f.name)) ]

\* scan_existing_tracks: the lists it can return, the glob order being any
\* and the sort by track_number stable.
scan_existing_tracks(dir_files) ==
    LET found == { scanned_info(f) :
                     f \in { g \in dir_files :
                               /\ ~skipped_as_concatenated(g.name)
                               /\ pattern_matches(g.name) } }
        n == Cardinality(found)
    IN  { list \in [ 1..n -> found ] :
            /\ \A i, j \in 1..n : i < j =>
                 /\ list[i] /= list[j]
                 /\ list[i].track_number <= list[j].track_number }

\* ------------------------------------------------------- download_playlist

\* max_retries and retry_delays of _download_video.
MaxRetries == 3

retry_delays == <<10, 20, 30>>

\* What ydl.extract_info can raise: download errors by their message, and
\* the KeyboardInterrupt of an external cancel signal.
DownloadErrors ==
    { [ type |-> "DownloadError", message |-> m ] :
        m \in { <<"H", "T", "T", "P", " ", "4", "0", "3">>,
                <<"F", "o", "r", "b", "i", "d", "d", "e", "n">>,
                <<"H", "T", "T", "P", " ", "4", "0", "4">> } }

KeyboardInterrupt == [ type |-> "KeyboardInterrupt", message |-> <<>> ]

\* click.Abort
Abort == [ type |-> "Abort" ]

\* needle in text
Contains(text, needle) ==
    \E k \in 1..(Len(text) - Len(needle) + 1) :
        SubSeq(text, k, k + Len(needle) - 1) = needle

\* "403" in error_str or "Forbidden" in error_str (line 240).
is_rate_limit(e) ==
    \/ Contains(e.message, <<"4", "0", "3">>)
    \/ Contains(e.message, <<"F", "o", "r", "b", "i", "d", "d", "e", "n">>)

\* A bare "except:" / "except BaseException": the interrupt is caught too.
except_everything_catches(e) == TRUE

\* "except Exception" (downloader.py 238, converter.py 65, cli.py 222):
\* KeyboardInterrupt is a BaseException and passes through.
except_exception_catches(e) == e.type /= "KeyboardInterrupt"

\* Every error retried while attempts are left.
retries_any_error(e, att) == att < MaxRetries - 1

\* "if is_rate_limit and attempt < max_retries - 1" (line 242).
retries(e, att) == is_rate_limit(e) /\ att < MaxRetries - 1

\* The loop left at the first item that could not be retrieved.
stop_after_failed_item(i, total) == total + 1

\* download_playlist's loop after _download_video returned None
\* (lines 88, 110-111): it goes on with the next entry.
after_failed_item(i, total) == i + 1

\* The handlers of the commands (cli.py 175-180, 326-333): how the command
\* ends for an exception.
command_outcome(e) ==
    IF e.type = "KeyboardInterrupt" THEN "interrupted"
    ELSE IF e.type = "Abort" THEN "aborted"
    ELSE "error"

cli_args == << command, update_tags, concatenate, entries, dir_name >>

loop_vars == << idx, attempt, sleeps, last_attempt >>

merge_vars == << run_concat, run_randomized, run_listing >>

other_specs == << concatenator_vars, overlap_vars >>

\* A command is started: main on a playlist, into a new directory, or
\* rerandomize on an existing playlist directory.
InitCli ==
    /\ ConcatenatorIdle
    /\ NoOverlap
    /\ command \in { "main", "rerandomize" }
    /\ cli_pc = "start"
    /\ dir_name \in DirNames
    /\ IF command = "main"
       THEN /\ update_tags \in BOOLEAN
            /\ concatenate \in BOOLEAN
            /\ entries \in Playlists
            /\ directory = {}
       ELSE /\ update_tags = FALSE
            /\ concatenate = FALSE
            /\ entries = <<>>
            /\ directory \in ExistingDirectories(dir_name)
    /\ idx = 0
    /\ attempt = 0
    /\ sleeps = <<>>
    /\ files = <<>>
    /\ tagged = 0
    /\ events = <<>>
    /\ outcome = "none"
    /\ run_concat = NoResult
    /\ run_randomized = NoResult
    /\ run_listing = NoListing
    /\ last_attempt = NoAttempt
    /\ interrupted_at = "none"
    /\ cli_error = NoError

\* The command ends in its handler for exception e.
ends_with(e) ==
    /\ cli_error' = e
    /\ outcome' = command_outcome(e)
    /\ cli_pc' = "done"

\* _get_playlist_info (downloader.py 69-84): the entries are known, or
\* yt-dlp raises and the command ends with the error.
GetPlaylistInfo ==
    /\ command = "main"
    /\ cli_pc = "start"
    /\ \/ /\ cli_pc' = "downloading"
          /\ idx' = 1
          /\ UNCHANGED << outcome, cli_error >>
       \/ /\ \E e \in DownloadErrors : ends_with(e)
          /\ UNCHANGED idx
    /\ UNCHANGED << cli_args, attempt, sleeps, last_attempt, files, tagged,
                    events, directory, merge_vars, interrupted_at >>
    /\ UNCHANGED other_specs

\* "if entry is None: continue" (lines 89-90).
SkipNoneEntry ==
    /\ cli_pc = "downloading"
    /\ idx <= Len(entries)
    /\ entries[idx] = NoneEntry
    /\ idx' = idx + 1
    /\ UNCHANGED << cli_args, cli_pc, attempt, sleeps, last_attempt, files,
                    tagged, events, outcome, directory, merge_vars,
                    interrupted_at, cli_error >>
    /\ UNCHANGED other_specs

\* The item is done with: the loop variables of _download_video start anew.
next_item(i) ==
    /\ idx' = i
    /\ attempt' = 0
    /\ sleeps' = <<>>

\* The pass of the loop just made: for which entry, with which value of
\* attempt, how it ended ("ok", "no mp3", "retry", "skip", "interrupt") and
\* the exception extract_info raised.
attempted(ended, e) ==
    [ item |-> idx, attempt |-> attempt, ended |-> ended, raised |-> e ]

\* One pass of the loop of _download_video (lines 215-248) for entry idx.
DownloadAttempt ==
    /\ cli_pc = "downloading"
    /\ idx <= Len(entries)
    /\ entries[idx] /= NoneEntry
    /\ events' = IF attempt = 0
                 THEN Append(events, [ step |-> "retrieve", on |-> <<idx>> ])
                 ELSE events
    /\ \/ \* the MP3 file is there (lines 220-236, 110-111)
          /\ last_attempt' = attempted("ok", NoError)
          /\ files' = Append(files, file_info(entries[idx], idx, Len(entries)))
          /\ directory' = directory \cup
                 { track_file(file_info(entries[idx], idx, Len(entries))) }
          /\ next_item(idx + 1)
          /\ UNCHANGED << cli_pc, outcome, cli_error, interrupted_at >>
       \/ \* no MP3 file was created (lines 223-225)
          /\ last_attempt' = attempted("no mp3", NoError)
          /\ next_item(after_failed_item(idx, Len(entries)))
          /\ UNCHANGED << files, directory, cli_pc, outcome, cli_error,
                          interrupted_at >>
       \/ \* extract_info raises (lines 238-248)
          \E e \in DownloadErrors \cup { KeyboardInterrupt } :
            /\ interrupted_at' = IF e = KeyboardInterrupt THEN "downloading"
                                 ELSE interrupted_at
            /\ UNCHANGED << files, directory >>
            /\ IF except_exception_catches(e)
               THEN /\ UNCHANGED << cli_pc, outcome, cli_error >>
                    /\ IF retries(e, attempt)
                       THEN /\ last_attempt' = attempted("retry", e)
                            /\ sleeps' = Append(sleeps, retry_delays[attempt + 1])
                            /\ attempt' = attempt + 1
                            /\ UNCHANGED idx
                       ELSE /\ last_attempt' = attempted("skip", e)
                            /\ next_item(after_failed_item(idx, Len(entries)))
               ELSE /\ last_attempt' = attempted("interrupt", e)
                    /\ ends_with(e)
                    /\ UNCHANGED << idx, attempt, sleeps >>
    /\ UNCHANGED << cli_args, tagged, merge_vars >>
    /\ UNCHANGED other_specs

\* download_playlist returns (lines 113-118) and main reports the counts
\* (cli.py 87-97).
DownloadReturns ==
    /\ cli_pc = "downloading"
    /\ idx > Len(entries)
    /\ cli_pc' = "tagging"
    /\ UNCHANGED << cli_args, loop_vars, files, tagged, events, outcome,
                    directory, merge_vars, interrupted_at, cli_error >>
    /\ UNCHANGED other_specs

\* ------------------------------------------------------------------- main

\* events with one more step: what was done and on which tracks, the
\* tracks by their track_number.
logged(step, on) == Append(events, [ step |-> step, on |-> on ])

track_numbers(list) == [ i \in 1..Len(list) |-> list[i].track_number ]

\* result["playlist_title"] of the directory's playlist.
playlist_title_of(dir) ==
    CHOOSE t \in PlaylistTitles : sanitize_filename(t, 100) = dir

\* The tag update run inside the download loop, right after each track.
TagFileWhileDownloading ==
    /\ cli_pc \in { "downloading", "tagging" }
    /\ update_tags
    /\ tagged < Len(files)
    /\ tagged' = tagged + 1
    /\ events' = logged("tag", << files[tagged + 1].track_number >>)
    /\ UNCHANGED << cli_args, cli_pc, loop_vars, files, outcome, directory,
                    merge_vars, interrupted_at, cli_error >>
    /\ UNCHANGED other_specs

\* One pass of "for file_info in result['files']: ID3Tagger.update_tags"
\* (cli.py 100-104); update_tags catches and prints every Exception of
\* the tagging (converter.py 65-66).
TagFile ==
    /\ cli_pc = "tagging"
    /\ update_tags
    /\ tagged < Len(files)
    /\ tagged' = tagged + 1
    /\ events' = logged("tag", << files[tagged + 1].track_number >>)
    /\ UNCHANGED << cli_args, cli_pc, loop_vars, files, outcome, directory,
                    merge_vars, interrupted_at, cli_error >>
    /\ UNCHANGED other_specs

\* The concatenation entered whenever --concatenate is given.
main_concatenates_when_asked(asked, list) == asked

\* "if concatenate and result['files']" (cli.py 118).
main_concatenates(asked, list) == asked /\ list /= <<>>

\* The tagging is over or was not asked for; the m3u playlist is written
\* when there are files (cli.py 107-113).
GenerateM3u ==
    /\ cli_pc = "tagging"
    /\ ~update_tags \/ tagged = Len(files)
    /\ events' = IF files /= <<>> THEN logged("m3u", track_numbers(files))
                 ELSE events
    /\ cli_pc' = IF main_concatenates(concatenate, files) THEN "concatenating"
                 ELSE "metadata"
    /\ UNCHANGED << cli_args, loop_vars, files, tagged, outcome, directory,
                    merge_vars, interrupted_at, cli_error >>
    /\ UNCHANGED other_specs

\* The ways a call of concatenate_files can end for the list handed to the
\* muxer: the ValueError of the empty list, the returned dictionary, the
\* CalledProcessError of a failing muxer, the OSError of a failing rename.
concatenate_outcomes(m, list) ==
    IF rejects(list)
    THEN { [ raised |-> TRUE, value |-> NoResult, error |-> ValueError ] }
    ELSE { [ raised |-> FALSE,
             value  |-> returned(m, calculate_timestamps(list), list),
             error  |-> NoError ] }
         \cup { [ raised |-> TRUE, value |-> NoResult,
                  error |-> called_process_error(status, diag) ] :
                    status \in FailureStatuses, diag \in MuxerDiagnostics }
         \cup { [ raised |-> TRUE, value |-> NoResult, error |-> OSError ] }

\* The directory after a file was written under f's name.
written(dir_files, f) == { g \in dir_files : g.name /= f.name } \cup { f }

\* AudioConcatenator.concatenate_files called by main (cli.py 119-129).
ConcatenateSequential ==
    /\ cli_pc = "concatenating"
    /\ \E o \in concatenate_outcomes("sequential", files) :
        IF o.raised
        THEN /\ ends_with(o.error)
             /\ events' = logged("concatenate failed", track_numbers(files))
             /\ UNCHANGED << run_concat, directory >>
        ELSE /\ run_concat' = o.value
             /\ directory' = written(directory,
                                 complete_file(dir_name, o.value.total_duration))
             /\ events' = logged("concatenate", track_numbers(files))
             /\ cli_pc' = "randomizing"
             /\ UNCHANGED << outcome, cli_error >>
    /\ UNCHANGED << cli_args, loop_vars, files, tagged, run_randomized,
                    run_listing, interrupted_at >>
    /\ UNCHANGED other_specs

\* AudioConcatenator.concatenate_files_randomized called by main
\* (cli.py 132-141) and by rerandomize (cli.py 294-305).
ConcatenateRandomized ==
    /\ cli_pc = "randomizing"
    /\ IF rejects(files)
       THEN /\ ends_with(ValueError)
            /\ events' = logged("randomized failed", <<>>)
            /\ UNCHANGED << files, run_randomized, directory >>
       ELSE \E s \in shuffle(files) :
            /\ files' = s.caller
            /\ \E o \in concatenate_outcomes("randomized", s.shuffled) :
                IF o.raised
                THEN /\ ends_with(o.error)
                     /\ events' = logged("randomized failed",
                                         track_numbers(s.shuffled))
                     /\ UNCHANGED << run_randomized, directory >>
                ELSE /\ run_randomized' = o.value
                     /\ directory' =
                            written(directory,
                                randomized_file(dir_name, o.value.total_duration))
                     /\ events' = logged("randomized", track_numbers(s.shuffled))
                     /\ cli_pc' = "listing"
                     /\ UNCHANGED << outcome, cli_error >>
    /\ UNCHANGED << cli_args, loop_vars, tagged, run_concat, run_listing,
                    interrupted_at >>
    /\ UNCHANGED other_specs

\* AudioConcatenator.generate_track_listing called on the randomized result
\* (cli.py 144-151, 308-316).
WriteListing ==
    /\ cli_pc = "listing"
    /\ run_listing' =
           generate_track_listing(run_randomized,
               IF command = "main" THEN playlist_title_of(dir_name)
               ELSE underscores_to_spaces(dir_name))
    /\ events' = logged("listing", track_numbers(run_randomized.shuffled_order))
    /\ cli_pc' = IF command = "main" THEN "metadata" ELSE "summary"
    /\ UNCHANGED << cli_args, loop_vars, files, tagged, outcome, directory,
                    run_concat, run_randomized, interrupted_at, cli_error >>
    /\ UNCHANGED other_specs

\* MetadataGenerator.generate_info_file called when there are files
\* (cli.py 155-160).
GenerateInfoFile ==
    /\ cli_pc = "metadata"
    /\ events' = IF files /= <<>> THEN logged("metadata", track_numbers(files))
                 ELSE events
    /\ cli_pc' = "summary"
    /\ UNCHANGED << cli_args, loop_vars, files, tagged, outcome, directory,
                    merge_vars, interrupted_at, cli_error >>
    /\ UNCHANGED other_specs

\* The summary is printed and the command returns (cli.py 162-173, 319-324).
Summary ==
    /\ cli_pc = "summary"
    /\ outcome' = "completed"
    /\ cli_pc' = "done"
    /\ UNCHANGED << cli_args, loop_vars, files, tagged, events, directory,
                    merge_vars, interrupted_at, cli_error >>
    /\ UNCHANGED other_specs

\* ------------------------------------------------------------ rerandomize

\* scan_existing_tracks and the check of its result (cli.py 267-277).
ScanExistingTracks ==
    /\ command = "rerandomize"
    /\ cli_pc = "start"
    /\ \E list \in scan_existing_tracks(directory) :
        /\ files' = list
        /\ events' = logged("scan", track_numbers(list))
        /\ IF list = <<>>
           THEN ends_with(Abort)
           ELSE /\ cli_pc' = "validating"
                /\ UNCHANGED << outcome, cli_error >>
    /\ UNCHANGED << cli_args, loop_vars, tagged, directory, merge_vars,
                    interrupted_at >>
    /\ UNCHANGED other_specs

\* "Validate all files exist" (cli.py 280-288).
ValidateFiles ==
    /\ cli_pc = "validating"
    /\ LET missing_files ==
               { i \in 1..Len(files) :
                   \A g \in directory : g.name /= files[i].path }
       IN  IF missing_files /= {}
           THEN ends_with(Abort)
           ELSE /\ cli_pc' = "randomizing"
                /\ UNCHANGED << outcome, cli_error >>
    /\ UNCHANGED << cli_args, loop_vars, files, tagged, events, directory,
                    merge_vars, interrupted_at >>
    /\ UNCHANGED other_specs

\* A KeyboardInterrupt raised at any other point of the command: it reaches
\* the handler of the command (cli.py 175-177, 328-330).
Interrupt ==
    /\ cli_pc \notin { "off", "done" }
    /\ interrupted_at' = cli_pc
    /\ ends_with(KeyboardInterrupt)
    /\ UNCHANGED << cli_args, loop_vars, files, tagged, events, directory,
                    merge_vars >>
    /\ UNCHANGED other_specs

NextCli ==
    \/ GetPlaylistInfo
    \/ SkipNoneEntry
    \/ DownloadAttempt
    \/ DownloadReturns
    \/ TagFile
    \/ GenerateM3u
    \/ ConcatenateSequential
    \/ ConcatenateRandomized
    \/ WriteListing
    \/ GenerateInfoFile
    \/ Summary
    \/ ScanExistingTracks
    \/ ValidateFiles
    \/ Interrupt

SpecCli == InitCli /\ [][NextCli]_vars

\* ------------------------------------------------- properties of the CLI

\* The steps logged so far with the given name.
Logged(step) == { j \in 1..Len(events) : events[j].step = step }

\* download_playlist has returned to main.
Downloaded == command = "main" /\ cli_pc \notin { "start", "downloading" }
                               /\ idx > Len(entries)

\* s is an ordering of t.
IsOrderingOf(s, t) ==
    /\ Len(s) = Len(t)
    /\ \A x \in { s[i] : i \in 1..Len(s) } \cup { t[i] : i \in 1..Len(t) } :
         Cardinality({ i \in 1..Len(s) : s[i] = x })
             = Cardinality({ i \in 1..Len(t) : t[i] = x })

\* The entries whose MP3 file is in the directory.
Retrieved ==
    { i \in 1..Len(entries) :
        /\ entries[i] /= NoneEntry
        /\ track_file(file_info(entries[i], i, Len(entries))) \in directory }

\* C11: a playlist item whose retrieval fails (an error that is not
\* retried, or no MP3 file afterwards) is skipped and the loop goes on with
\* the next item; once download_playlist has returned every entry that is
\* not None was attempted; the file list holds exactly the retrieved
\* items, in playlist order, each with its 1-indexed playlist position as
\* track_number; and tagging, the m3u playlist, the concatenations, the
\* listing and the metadata file are given exactly these tracks.
C11_FailedItemSkippedRestKept ==
    /\ [][ (last_attempt' /= last_attempt
              /\ last_attempt'.ended \in { "skip", "no mp3" })
           => /\ cli_pc' = "downloading"
              /\ idx' = idx + 1
              /\ files' = files
              /\ outcome' = "none" ]_vars
    /\ [](Downloaded =>
            \A i \in 1..Len(entries) :
                entries[i] /= NoneEntry
                    => \E j \in Logged("retrieve") : events[j].on = << i >>)
    /\ [](command = "main" =>
            /\ \A k \in 1..Len(files) :
                 /\ files[k].track_number \in Retrieved
                 /\ files[k] = file_info(entries[files[k].track_number],
                                         files[k].track_number, Len(entries))
            /\ \A k, l \in 1..Len(files) :
                 k < l => files[k].track_number < files[l].track_number
            /\ { files[k].track_number : k \in 1..Len(files) } = Retrieved
            /\ \A j \in 1..Len(events) :
                 /\ events[j].step \in { "m3u", "concatenate", "metadata",
                                         "concatenate failed" }
                        => events[j].on = track_numbers(files)
                 /\ events[j].step \in { "randomized", "listing",
                                         "randomized failed" }
                        => IsOrderingOf(events[j].on, track_numbers(files))
            /\ tagged = Cardinality(Logged("tag"))
            /\ \A j \in Logged("tag") :
                 events[j].on =
                     << files[Cardinality({ i \in Logged("tag") : i <= j })]
                            .track_number >>
            /\ (update_tags /\ cli_pc \in { "metadata", "summary" })
                   => tagged = Len(files))

C11_Witness ==
    /\ command = "main"
    /\ outcome = "completed"
    /\ Len(entries) = 3
    /\ entries[2] /= NoneEntry
    /\ track_numbers(files) = << 1, 3 >>
    /\ Cardinality(Logged("tag")) = 2
    /\ Logged("listing") /= {}

\* A pass of the loop of _download_video was just made.
Attempted == last_attempt' /= last_attempt

\* C12: the retrieval of one item is over after at most MaxRetries = 3
\* passes of the loop: a 403/Forbidden error on the first or second pass is
\* followed by a wait and another pass for the same item, each wait longer
\* than the one before; a 403/Forbidden error on the third pass ends the
\* item as a skip; any other error ends the item as a skip on the pass it
\* happens in, with no wait and no further pass.
C12_RetriesBoundedBackoffIncreasing ==
    /\ [](/\ attempt \in 0..(MaxRetries - 1)
          /\ last_attempt.attempt \in 0..(MaxRetries - 1)
          /\ Len(sleeps) = attempt
          /\ \A i, j \in 1..Len(sleeps) : i < j => sleeps[i] < sleeps[j])
    /\ [][ (Attempted /\ last_attempt'.attempt = MaxRetries - 1)
           => idx' = idx + 1 \/ cli_pc' = "done" ]_vars
    /\ [][ (Attempted /\ last_attempt'.raised.type = "DownloadError")
           => IF is_rate_limit(last_attempt'.raised)
                 /\ last_attempt'.attempt < MaxRetries - 1
              THEN /\ last_attempt'.ended = "retry"
                   /\ idx' = idx
                   /\ attempt' = attempt + 1
                   /\ Len(sleeps') = Len(sleeps) + 1
                   /\ SubSeq(sleeps', 1, Len(sleeps)) = sleeps
                   /\ \A i \in 1..Len(sleeps) :
                        sleeps[i] < sleeps'[Len(sleeps')]
                   /\ files' = files
              ELSE /\ last_attempt'.ended = "skip"
                   /\ idx' = idx + 1
                   /\ attempt' = 0
                   /\ sleeps' = <<>>
                   /\ files' = files ]_vars

C12_Witness ==
    /\ last_attempt.ended = "skip"
    /\ last_attempt.attempt = MaxRetries - 1
    /\ is_rate_limit(last_attempt.raised)
    /\ idx = last_attempt.item + 1
    /\ cli_pc = "downloading"

\* The steps that merge tracks or list a merge.
MergeSteps ==
    { "concatenate", "concatenate failed", "randomized", "randomized failed",
      "listing" }

\* The command is past the point where its tracks are known.
TracksKnown ==
    \/ Downloaded
    \/ command = "rerandomize" /\ cli_pc /= "start"

\* C13: with zero tracks (every retrieval failed, or the scan found no
\* numbered track file) neither command calls a concatenation or the
\* listing generation, so the ValueError of the empty list is never raised
\* in a command; main goes on to its summary and rerandomize ends with
\* click.Abort after its message.
C13_NoMergeWithoutTracks ==
    /\ cli_error.type /= "ValueError"
    /\ (TracksKnown /\ files = <<>>) =>
        /\ \A j \in 1..Len(events) : events[j].step \notin MergeSteps
        /\ cli_pc \notin { "concatenating", "randomizing", "listing" }
        /\ run_concat = NoResult
        /\ run_randomized = NoResult
        /\ run_listing = NoListing
        /\ cli_pc = "done" =>
             \/ outcome = "interrupted"
             \/ command = "main" /\ outcome = "completed"
             \/ command = "rerandomize" /\ outcome = "aborted"
                                        /\ cli_error = Abort

C13_Witness ==
    /\ command = "main"
    /\ concatenate
    /\ Len(entries) = 2
    /\ Cardinality(Logged("retrieve")) = 2
    /\ files = <<>>
    /\ outcome = "completed"

\* C14: a KeyboardInterrupt, raised inside a retrieval attempt or anywhere
\* else in a command, is not caught by the "except Exception" of the retry
\* loop: the command takes no further step (no retrieval, no later
\* pipeline step), the interrupting step leaves the file list and the
\* files of the directory as they were, and the command ends as
\* "interrupted", never as "error".
C14_InterruptEndsTheRun ==
    /\ [](interrupted_at /= "none" =>
            /\ cli_pc = "done"
            /\ outcome = "interrupted"
            /\ cli_error = KeyboardInterrupt)
    /\ [][ interrupted_at = "none" ]_vars
    /\ [][ interrupted_at' /= "none" =>
            /\ files' = files
            /\ directory' = directory
            /\ tagged' = tagged
            /\ merge_vars' = merge_vars ]_vars

C14_Witness ==
    /\ interrupted_at = "downloading"
    /\ last_attempt.ended = "interrupt"
    /\ last_attempt.attempt = 1
    /\ Len(files) >= 1
    /\ outcome = "interrupted"

\* The position in events of the tag update of track number t, 0 when
\* there is none.
TagOf(t) ==
    IF \E j \in Logged("tag") : events[j].on = << t >>
    THEN CHOOSE j \in Logged("tag") : events[j].on = << t >>
    ELSE 0

\* C15 as stated: in a run with --update-tags, when the retrieval of a
\* track begins, every track retrieved before it has already had its tags
\* updated.
C15_TaggedBeforeNextRetrieval ==
    (command = "main" /\ update_tags) =>
        \A j \in Logged("retrieve") :
            \A k \in 1..Len(files) :
                files[k].track_number < events[j].on[1]
                    => TagOf(files[k].track_number) \in 1..(j - 1)

\* C15, amended: the tracks are retrieved one at a time, in playlist
\* order, each retrieval being over before the next begins; the tag update
\* is a separate pass that begins only when the retrieval of the last
\* entry is over, and it goes through the retrieved tracks in playlist
\* order.
C15_RetrievalThenTaggingPass ==
    command = "main" =>
        /\ \A i, j \in Logged("retrieve") :
             i < j => events[i].on[1] < events[j].on[1]
        /\ \A j \in Logged("retrieve") :
             /\ events[j].on[1] <= idx
             /\ events[j].on[1] = idx => cli_pc \in { "downloading", "done" }
        /\ \A i \in Logged("tag"), j \in Logged("retrieve") : j < i
        /\ \A i, j \in Logged("tag") :
             i < j => events[i].on[1] < events[j].on[1]
        /\ Logged("tag") /= {} => idx > Len(entries) /\ update_tags
        /\ tagged <= Len(files)

C15_Witness ==
    /\ command = "main"
    /\ update_tags
    /\ cli_pc = "tagging"
    /\ track_numbers(files) = << 1, 2, 3 >>
    /\ tagged = 2
    /\ Cardinality(Logged("retrieve")) = 3

\* C16 as stated: when the muxer fails in the sequential concatenation of
\* a download run, the run still carries out the randomized concatenation,
\* its track listing and the metadata file.
C16_FailedMergeDoesNotStopTheRun ==
    (/\ command = "main"
     /\ cli_pc = "done"
     /\ interrupted_at = "none"
     /\ Logged("concatenate failed") /= {}
     /\ cli_error.type = "CalledProcessError")
        => /\ Logged("randomized") /= {}
           /\ Logged("listing") /= {}
           /\ Logged("metadata") /= {}
           /\ outcome = "completed"

\* C18 as stated: the list rerandomize gets from the scan holds exactly the
\* numbered per-track files of the directory, sorted by track number, and no
\* file written by a concatenation.
C18_ScanReturnsTracksOnly ==
    (command = "rerandomize" /\ cli_pc = "validating") =>
        /\ \A k \in 1..Len(files) :
             \E g \in directory : g.name = files[k].path /\ g.role = "track"
        /\ { files[k].path : k \in 1..Len(files) }
               = { g.name : g \in { h \in directory : h.role = "track" } }
        /\ \A k, l \in 1..Len(files) :
             k < l => files[k].track_number < files[l].track_number

====
